---- MODULE Spec2Model ----
(***************************************************************************)
(* Model of super30-webanalytics.py: one Streamlit script run ("render     *)
(* cycle") that dispatches on the sidebar mode to either the simulated     *)
(* road-traffic view or the Wikipedia pageview view.  The blocking GET of  *)
(* fetch_wikipedia_pageviews is the only point where the environment (the  *)
(* remote API) acts, so a Wikipedia cycle is split there.                  *)
(***************************************************************************)
EXTENDS Integers, Sequences, FiniteSets, TLC

VARIABLES
    pc,          \* position of the script run
    option,      \* st.sidebar.radio value
    pressed,     \* st.button("Get Article Analytics")
    article,     \* st.text_input value, a sequence of characters
    start_date,  \* st.date_input("Start Date")
    end_date,    \* st.date_input("End Date")
    url,         \* the URL built by fetch_wikipedia_pageviews
    response,    \* the response to the GET (or the transport error)
    views_df,    \* what fetch_wikipedia_pageviews returned
    messages,    \* st.warning / st.error / st.success calls of this cycle, in order
    metrics,     \* the three st.metric values of the Wikipedia view
    chart,       \* TRUE when the pageview line chart and raw data were rendered
    getCount,    \* requests.get calls of this cycle
    fetchCalls,  \* fetch_wikipedia_pageviews calls of this cycle
    pipelines,   \* the display_* functions run in this cycle, in order
    road         \* what display_road_traffic_analytics produced

vars == <<pc, option, pressed, article, start_date, end_date, url, response,
          views_df, messages, metrics, chart, getCount, fetchCalls, pipelines, road>>

----------------------------------------------------------------------------
(* Bounds of the model *)

\* longest `items` array the modelled API returns
MaxItems == 3
\* seeds of the modelled random stream are 0..MaxSeed
MaxSeed == 2
\* resolution of the modelled uniform draw: a draw is k/RandRes of the range
RandRes == 100

----------------------------------------------------------------------------
(* Calendar dates: records [y, m, d] *)

MkDate(y, m, d) == [y |-> y, m |-> m, d |-> d]

IsLeap(y) == (y % 4 = 0 /\ y % 100 # 0) \/ y % 400 = 0

DaysInMonth(y, m) ==
    IF m = 2 THEN (IF IsLeap(y) THEN 29 ELSE 28)
    ELSE IF m \in {4, 6, 9, 11} THEN 30 ELSE 31

\* date.__gt__ / Timestamp ordering
DateLT(a, b) ==
    \/ a.y < b.y
    \/ a.y = b.y /\ a.m < b.m
    \/ a.y = b.y /\ a.m = b.m /\ a.d < b.d

\* date.today() of the modelled runs
Today == MkDate(2024, 3, 1)

\* strftime('%Y%m%d'), as the digit string read as a number
StrfYmd(dt) == dt.y * 10000 + dt.m * 100 + dt.d

\* pd.to_datetime(ts, format='%Y%m%d00') on one value: the trailing "00" is
\* literal, the rest must be a calendar date; otherwise ValueError
ParseTimestamp(ts) ==
    LET y == ts \div 1000000
        m == (ts \div 10000) % 100
        d == (ts \div 100) % 100
        ok == /\ ts % 100 = 0
              /\ y >= 1
              /\ m \in 1..12
              /\ d >= 1 /\ d <= DaysInMonth(y, m)
    IN [ok |-> ok, date |-> IF ok THEN MkDate(y, m, d) ELSE MkDate(0, 0, 0)]

----------------------------------------------------------------------------
(* Simulated road traffic *)

\* hundredths of a degree
LAT_MIN == 4070
LAT_MAX == 4080
LON_MIN == -7402
LON_MAX == -7393
\* grid resolution on each axis
GridN == 15

\* np.linspace(lo, hi, num): num evenly spaced values, both ends included.
\* The i-th value is lo + (i-1)*(hi-lo)/(num-1); it is kept exact by
\* expressing it in units of 1/(num-1) of the unit of lo and hi.
Linspace(lo, hi, num) == [i \in 1..num |-> lo * (num - 1) + (i - 1) * (hi - lo)]

\* the k-th draw of the random stream started from `seed`, as a numerator
\* over RandRes: a value in [0, 1)
Draw(seed, k) == (seed * 31 + k * 37) % RandRes

\* np.random.uniform(lo, hi) for the draw u/RandRes, in units of 1/RandRes
Uniform(lo, hi, u) == lo * RandRes + (hi - lo) * u

\* the generator with the inner loop running over lat_vals' indices paired
\* one to one (zip instead of a cross-product)
Generate_Zipped(seed) ==
    LET lat_vals == Linspace(LAT_MIN, LAT_MAX, GridN)
        lon_vals == Linspace(LON_MIN, LON_MAX, GridN)
    IN [n \in 1..Len(lat_vals) |->
          [lat           |-> lat_vals[n],
           lon           |-> lon_vals[n],
           currentSpeed  |-> Uniform(10, 60, Draw(seed, 4 * (n - 1))),
           freeFlowSpeed |-> Uniform(40, 70, Draw(seed, 4 * (n - 1) + 1)),
           jamFactor     |-> Uniform(0, 10, Draw(seed, 4 * (n - 1) + 2)),
           confidence    |-> Uniform(5, 10, Draw(seed, 4 * (n - 1) + 3))]]

\* generate_simulated_traffic_data(): the nested loop over lat_vals and
\* lon_vals, four draws per record in the order the dict is built.
\* confidence is sampled in tenths (0.5 .. 1 is 5 .. 10).
GenerateSimulatedTrafficData(seed) ==
    LET lat_vals == Linspace(LAT_MIN, LAT_MAX, GridN)
        lon_vals == Linspace(LON_MIN, LON_MAX, GridN)
    IN [n \in 1..(Len(lat_vals) * Len(lon_vals)) |->
          LET i == ((n - 1) \div Len(lon_vals)) + 1
              j == ((n - 1) % Len(lon_vals)) + 1
              k == 4 * (n - 1)
          IN [lat           |-> lat_vals[i],
              lon           |-> lon_vals[j],
              currentSpeed  |-> Uniform(10, 60, Draw(seed, k)),
              freeFlowSpeed |-> Uniform(40, 70, Draw(seed, k + 1)),
              jamFactor     |-> Uniform(0, 10, Draw(seed, k + 2)),
              confidence    |-> Uniform(5, 10, Draw(seed, k + 3))]]

RECURSIVE SumRange(_, _, _, _)
\* the sum of column f over rows lo..hi, by halves
SumRange(rows, f, lo, hi) ==
    IF lo > hi THEN 0
    ELSE IF lo = hi THEN rows[lo][f]
    ELSE LET mid == (lo + hi) \div 2
         IN SumRange(rows, f, lo, mid) + SumRange(rows, f, mid + 1, hi)

\* Series.sum() of column f over the first n rows
SumField(rows, f, n) == SumRange(rows, f, 1, n)

\* Series.max() of column f over the first n rows (n >= 1)
MaxField(rows, f, n) ==
    CHOOSE v \in {rows[i][f] : i \in 1..n} : \A i \in 1..n : rows[i][f] <= v

\* Series.mean(): sum over count, kept as the exact fraction
Mean(rows, f) == [num |-> SumField(rows, f, Len(rows)), den |-> Len(rows)]

NoRoad ==
    [shown |-> FALSE, df |-> <<>>, head |-> <<>>,
     avg_speed |-> [num |-> 0, den |-> 1], avg_free_speed |-> [num |-> 0, den |-> 1],
     avg_jam |-> [num |-> 0, den |-> 1], max_jam |-> 0]

\* display_road_traffic_analytics(): the table preview, the three figures
\* (all drawn from df) and the aggregate insights
RoadView(seed) ==
    LET df == GenerateSimulatedTrafficData(seed)
    IN [shown          |-> TRUE,
        df             |-> df,
        head           |-> SubSeq(df, 1, IF Len(df) < 10 THEN Len(df) ELSE 10),
        avg_speed      |-> Mean(df, "currentSpeed"),
        avg_free_speed |-> Mean(df, "freeFlowSpeed"),
        avg_jam        |-> Mean(df, "jamFactor"),
        max_jam        |-> MaxField(df, "jamFactor", Len(df))]

----------------------------------------------------------------------------
(* Wikipedia pageviews: inputs and the API's responses *)

Options == {"Simulated NYC Road Traffic", "Wikipedia Article Traffic"}

\* article titles are sequences of characters
DefaultArticle == <<"S">>
Articles == {<<>>, DefaultArticle, <<"A", " ", "I">>}

\* today - timedelta(days=30)
LastMonth == MkDate(2024, 1, 31)
StartDates == {LastMonth, Today}
EndDates == {LastMonth, Today}

\* `timestamp` values of the API's items: three days in calendar order
\* (one of them a leap day) and one that is no calendar date
Timestamps == {2024022800, 2024022900, 2024030100, 2024023000}
\* `views` values of the API's items
ViewCounts == {-1, 0, 7}

Items == [timestamp : Timestamps, views : ViewCounts]

SeqsUpTo(S, n) == UNION {[1..k -> S] : k \in 0..n}

\* a response body: not JSON at all, a JSON scalar (null, a number), or a
\* JSON object with or without the `items` array
NotJsonBody == [kind |-> "notjson", hasItems |-> FALSE, items |-> <<>>]
ScalarBody == [kind |-> "scalar", hasItems |-> FALSE, items |-> <<>>]
NoItemsBody == [kind |-> "object", hasItems |-> FALSE, items |-> <<>>]
ItemsBody(items) == [kind |-> "object", hasItems |-> TRUE, items |-> items]

Bodies ==
    {NotJsonBody, ScalarBody, NoItemsBody} \cup {ItemsBody(it) : it \in SeqsUpTo(Items, MaxItems)}

\* bodies sent along with an error status
ErrorBodies ==
    {NotJsonBody, NoItemsBody, ItemsBody(<<[timestamp |-> 2024022800, views |-> 7]>>)}

NoResponse ==
    [kind |-> "none", status |-> 0, body |-> NotJsonBody, jsonErrIsRequestException |-> FALSE]

\* what requests.get can do: raise a transport error, or return a response.
\* jsonErrIsRequestException tells how the installed requests reports a body
\* that is not JSON from Response.json(): as requests.JSONDecodeError, a
\* RequestException (requests >= 2.27), or as a plain ValueError (older).
Responses ==
    {[kind |-> "transport_error", status |-> 0, body |-> NotJsonBody,
      jsonErrIsRequestException |-> FALSE]}
    \cup {[kind |-> "http", status |-> 200, body |-> b, jsonErrIsRequestException |-> j] :
             b \in Bodies \ {NotJsonBody}, j \in {FALSE}}
    \cup {[kind |-> "http", status |-> 200, body |-> NotJsonBody,
           jsonErrIsRequestException |-> j] : j \in BOOLEAN}
    \cup {[kind |-> "http", status |-> st, body |-> b, jsonErrIsRequestException |-> FALSE] :
             st \in {404, 500}, b \in ErrorBodies}

----------------------------------------------------------------------------
(* fetch_wikipedia_pageviews *)

\* article.replace(' ', '_')
ReplaceSpaces(a) == [i \in 1..Len(a) |-> IF a[i] = " " THEN "_" ELSE a[i]]

NoUrl == [article_formatted |-> <<>>, start_str |-> 0, end_str |-> 0]

\* the variable parts of the request URL
BuildUrl(a, s, e) ==
    [article_formatted |-> ReplaceSpaces(a), start_str |-> StrfYmd(s), end_str |-> StrfYmd(e)]

None == [isNone |-> TRUE, rows |-> <<>>]
DataFrame(rows) == [isNone |-> FALSE, rows |-> rows]

\* the columns of pd.DataFrame(items): the union of the items' keys
Columns(items) == UNION {DOMAIN items[i] : i \in 1..Len(items)}

\* the normalisation returning the rows newest first
Normalize_Reversed(items) ==
    [raised |-> \E i \in 1..Len(items) : ~ParseTimestamp(items[i].timestamp).ok,
     rows |-> [i \in 1..Len(items) |->
                 [date |-> ParseTimestamp(items[Len(items) + 1 - i].timestamp).date,
                  pageviews |-> items[Len(items) + 1 - i].views]]]

\* The `if 'items' in data` branch: build the frame, parse the timestamp
\* column, rename, select ['date', 'pageviews'].  raised is TRUE when one of
\* these steps raises (KeyError for a missing column, ValueError for a
\* timestamp that does not parse).
Normalize(items) ==
    IF "timestamp" \notin Columns(items)
    THEN [raised |-> TRUE, rows |-> <<>>]
    ELSE IF \E i \in 1..Len(items) : ~ParseTimestamp(items[i].timestamp).ok
    THEN [raised |-> TRUE, rows |-> <<>>]
    ELSE IF "views" \notin Columns(items)
    THEN [raised |-> TRUE, rows |-> <<>>]
    ELSE [raised |-> FALSE,
          rows |-> [i \in 1..Len(items) |->
                      [date |-> ParseTimestamp(items[i].timestamp).date,
                       pageviews |-> items[i].views]]]

\* response.raise_for_status(): HTTPError for 4xx and 5xx
RaisesForStatus(status) == status >= 400 /\ status < 600

\* the try block with raise_for_status() ahead of the 404 check
FetchOutcome_StatusFirst(resp) ==
    IF resp.kind = "transport_error" \/ RaisesForStatus(resp.status)
    THEN [ret |-> None, err |-> "err_request"]
    ELSE IF resp.body.kind # "object"
    THEN [ret |-> None, err |-> "err_processing"]
    ELSE IF resp.body.hasItems /\ ~Normalize(resp.body.items).raised
    THEN [ret |-> DataFrame(Normalize(resp.body.items).rows), err |-> "none"]
    ELSE [ret |-> None, err |-> IF resp.body.hasItems THEN "err_processing" ELSE "none"]

\* the try block reporting a body without `items` as a processing error
FetchOutcome_NoItemsIsError(resp) ==
    IF resp.kind = "transport_error"
    THEN [ret |-> None, err |-> "err_request"]
    ELSE IF resp.status = 404
    THEN [ret |-> None, err |-> "err_404"]
    ELSE IF RaisesForStatus(resp.status)
    THEN [ret |-> None, err |-> "err_request"]
    ELSE IF resp.body.kind # "object" \/ ~resp.body.hasItems
    THEN [ret |-> None, err |-> "err_processing"]
    ELSE IF Normalize(resp.body.items).raised
    THEN [ret |-> None, err |-> "err_processing"]
    ELSE [ret |-> DataFrame(Normalize(resp.body.items).rows), err |-> "none"]

\* The try block of fetch_wikipedia_pageviews on the outcome of the GET:
\* ret is the value returned, err the st.error it emitted ("none" if none).
FetchOutcome(resp) ==
    IF resp.kind = "transport_error"
    THEN [ret |-> None, err |-> "err_request"]
    ELSE IF resp.status = 404
    THEN [ret |-> None, err |-> "err_404"]
    ELSE IF RaisesForStatus(resp.status)
    THEN [ret |-> None, err |-> "err_request"]
    ELSE IF resp.body.kind = "notjson"
    THEN [ret |-> None,
          err |-> IF resp.jsonErrIsRequestException THEN "err_request" ELSE "err_processing"]
    ELSE IF resp.body.kind = "scalar"
    THEN [ret |-> None, err |-> "err_processing"]
    ELSE IF resp.body.hasItems
    THEN LET n == Normalize(resp.body.items)
         IN IF n.raised
            THEN [ret |-> None, err |-> "err_processing"]
            ELSE [ret |-> DataFrame(n.rows), err |-> "none"]
    ELSE [ret |-> None, err |-> "none"]

----------------------------------------------------------------------------
(* display_wikipedia_analytics *)

\* the body run on every script run
ButtonTriggers_Always(p) == TRUE

\* `if st.button(...)`: the body runs only in the script run the press caused
ButtonTriggers(p) == p

\* Validate without the date-order check
Validate_NoDateCheck(a, s, e) == IF Len(a) = 0 THEN "warn_no_article" ELSE "ok"

\* the two input checks, in order: the warning shown, or "ok"
Validate(a, s, e) ==
    IF Len(a) = 0 THEN "warn_no_article"
    ELSE IF DateLT(e, s) THEN "warn_dates"
    ELSE "ok"

\* the emptiness guard left out
HasData_Always(df) == TRUE

\* `views_df is not None and not views_df.empty`
HasData(df) == ~df.isNone /\ Len(df.rows) # 0

\* the scan keeping the last occurrence of the maximum
Later_LastWins(rows, b, n) == IF rows[n].pageviews >= rows[b].pageviews THEN n ELSE b

\* one step of the scan for the maximum: a later row replaces the best so
\* far only when it is strictly greater
Later(rows, b, n) == IF rows[n].pageviews > rows[b].pageviews THEN n ELSE b

RECURSIVE IdxMaxUpTo(_, _)
\* Series.idxmax() over the first n rows (n >= 1): the label of the first
\* occurrence of the maximum; the frame's index is 0..N-1, rows here 1..N
IdxMaxUpTo(rows, n) ==
    IF n = 1 THEN 1
    ELSE Later(rows, IdxMaxUpTo(rows, n - 1), n)

NoMetrics ==
    [shown |-> FALSE, raised |-> FALSE, total_views |-> 0,
     avg_views |-> [num |-> 0, den |-> 1],
     max_views_row |-> [date |-> MkDate(0, 0, 0), pageviews |-> 0]]

\* The key metrics.  On a frame without rows (or on None) the lookups raise
\* and nothing catches it: raised is TRUE and no metric is shown.
KeyMetrics(rows) ==
    IF Len(rows) = 0
    THEN [NoMetrics EXCEPT !.raised = TRUE]
    ELSE [shown         |-> TRUE,
          raised        |-> FALSE,
          total_views   |-> SumField(rows, "pageviews", Len(rows)),
          avg_views     |-> Mean(rows, "pageviews"),
          max_views_row |-> rows[IdxMaxUpTo(rows, Len(rows))]]

----------------------------------------------------------------------------
(* The script run *)

\* the if/else at the bottom of the script
Pipeline(opt) == IF opt = "Simulated NYC Road Traffic" THEN "road" ELSE "wikipedia"

Init ==
    /\ pc = "start"
    /\ option = "Simulated NYC Road Traffic"
    /\ pressed = FALSE
    /\ article = DefaultArticle
    /\ start_date = LastMonth
    /\ end_date = Today
    /\ url = NoUrl
    /\ response = NoResponse
    /\ views_df = None
    /\ messages = <<>>
    /\ metrics = NoMetrics
    /\ chart = FALSE
    /\ getCount = 0
    /\ fetchCalls = 0
    /\ pipelines = <<>>
    /\ road = NoRoad

\* A run with the road-traffic view selected: display_road_traffic_analytics
\* runs to its end.
DisplayRoadTrafficAnalytics ==
    /\ pc = "start"
    /\ \E opt \in Options, seed \in 0..MaxSeed :
          /\ Pipeline(opt) = "road"
          /\ option' = opt
          /\ road' = RoadView(seed)
          /\ pipelines' = Append(pipelines, "road")
          /\ pc' = "done"
    /\ UNCHANGED <<pressed, article, start_date, end_date, url, response, views_df,
                   messages, metrics, chart, getCount, fetchCalls>>

\* A run with the Wikipedia view selected: display_wikipedia_analytics up to
\* its return, or up to the GET inside fetch_wikipedia_pageviews.
DisplayWikipediaAnalytics ==
    /\ pc = "start"
    /\ \E opt \in Options, a \in Articles, s \in StartDates, e \in EndDates, p \in BOOLEAN :
          /\ Pipeline(opt) = "wikipedia"
          /\ option' = opt
          /\ article' = a
          /\ start_date' = s
          /\ end_date' = e
          /\ pressed' = p
          /\ pipelines' = Append(pipelines, "wikipedia")
          /\ IF ~ButtonTriggers(p)
             THEN /\ pc' = "done"
                  /\ UNCHANGED <<messages, fetchCalls, url, getCount>>
             ELSE IF Validate(a, s, e) # "ok"
             THEN /\ messages' = Append(messages, Validate(a, s, e))
                  /\ pc' = "done"
                  /\ UNCHANGED <<fetchCalls, url, getCount>>
             ELSE /\ fetchCalls' = fetchCalls + 1
                  /\ url' = BuildUrl(a, s, e)
                  /\ getCount' = getCount + 1
                  /\ pc' = "wiki_get"
                  /\ UNCHANGED messages
    /\ UNCHANGED <<response, views_df, metrics, chart, road>>

\* requests.get returns or raises; the rest of fetch_wikipedia_pageviews and
\* of display_wikipedia_analytics runs on its outcome.
GetReturns ==
    /\ pc = "wiki_get"
    /\ \E resp \in Responses :
          LET o == FetchOutcome(resp)
              shown == IF o.err = "none" THEN messages ELSE Append(messages, o.err)
          IN /\ response' = resp
             /\ views_df' = o.ret
             /\ IF HasData(o.ret)
                THEN /\ messages' = Append(shown, "success")
                     /\ metrics' = KeyMetrics(o.ret.rows)
                     /\ chart' = ~KeyMetrics(o.ret.rows).raised
                     /\ pc' = IF KeyMetrics(o.ret.rows).raised THEN "crashed" ELSE "done"
                ELSE /\ messages' = Append(shown, "err_no_data")
                     /\ pc' = "done"
                     /\ UNCHANGED <<metrics, chart>>
    /\ UNCHANGED <<option, pressed, article, start_date, end_date, url, getCount,
                   fetchCalls, pipelines, road>>

\* The next user interaction reruns the script from the top; nothing of the
\* previous run's output is kept.
Rerun ==
    /\ pc \in {"done", "crashed"}
    /\ pc' = "start"
    /\ option' = "Simulated NYC Road Traffic"
    /\ pressed' = FALSE
    /\ article' = DefaultArticle
    /\ start_date' = LastMonth
    /\ end_date' = Today
    /\ url' = NoUrl
    /\ response' = NoResponse
    /\ views_df' = None
    /\ messages' = <<>>
    /\ metrics' = NoMetrics
    /\ chart' = FALSE
    /\ getCount' = 0
    /\ fetchCalls' = 0
    /\ pipelines' = <<>>
    /\ road' = NoRoad

Next ==
    \/ DisplayRoadTrafficAnalytics
    \/ DisplayWikipediaAnalytics
    \/ GetReturns
    \/ Rerun

Spec == Init /\ [][Next]_vars

----------------------------------------------------------------------------
(* Properties *)

WikiSelected == pc # "start" /\ option = "Wikipedia Article Traffic"

\* the cycle went through fetch_wikipedia_pageviews and the GET has returned
Fetched == pc \in {"done", "crashed"} /\ response.kind # "none"

FetchErrors == {"err_404", "err_request", "err_processing"}

\* the error messages fetch_wikipedia_pageviews itself emitted in this cycle
FetchErrorsShown == {i \in 1..Len(messages) : messages[i] \in FetchErrors}

\* C1: when the trigger is pressed with an empty article title or with
\* start_date after end_date, the cycle ends with the matching warning and
\* nothing else: fetch_wikipedia_pageviews is not invoked, no URL is built,
\* no GET is issued and no response is received in that cycle.
C1_ValidationShortCircuits ==
    (WikiSelected /\ pressed /\ (Len(article) = 0 \/ DateLT(end_date, start_date)))
        => /\ pc = "done"
           /\ messages = <<IF Len(article) = 0 THEN "warn_no_article" ELSE "warn_dates">>
           /\ fetchCalls = 0
           /\ getCount = 0
           /\ url = NoUrl
           /\ response = NoResponse
           /\ ~metrics.shown /\ ~chart

C1_Witness ==
    /\ WikiSelected /\ pressed /\ pc = "done"
    /\ Len(article) > 0
    /\ DateLT(end_date, start_date)
    /\ messages = <<"warn_dates">>

\* C2: a response with status 404 yields the article-not-found message and
\* None whatever its body holds, and the caller shows no metrics and no
\* chart (only its own could-not-retrieve message follows).
C2_NotFound ==
    (Fetched /\ response.kind = "http" /\ response.status = 404)
        => /\ views_df = None
           /\ messages = <<"err_404", "err_no_data">>
           /\ ~metrics.shown
           /\ ~chart
           /\ pc = "done"

C2_Witness ==
    /\ Fetched /\ response.kind = "http" /\ response.status = 404
    /\ response.body.hasItems /\ Len(response.body.items) > 0
    /\ messages = <<"err_404", "err_no_data">>

\* the GET succeeded with a JSON object that has no `items` field
LacksItems ==
    /\ Fetched /\ response.kind = "http"
    /\ response.status \in 200..299
    /\ response.body.kind = "object" /\ ~response.body.hasItems

\* C3: a successful response whose JSON object lacks `items` makes the fetch
\* return None without emitting any of its error messages, and it is the
\* only outcome of that shape: every fetch that returns None for another
\* reason emits one of the three failure messages.
C3_NoDataIsNotFailure ==
    /\ LacksItems => (views_df = None /\ FetchErrorsShown = {} /\ messages = <<"err_no_data">>)
    /\ (Fetched /\ views_df = None /\ FetchErrorsShown = {}) => LacksItems

C3_Witness == LacksItems /\ views_df = None /\ messages = <<"err_no_data">>

\* the response is a success whose `items` all carry a timestamp that is a
\* calendar date followed by 00
ValidItemsResponse ==
    /\ Fetched /\ response.kind = "http" /\ response.status \in 200..299
    /\ response.body.kind = "object" /\ response.body.hasItems
    /\ \A i \in 1..Len(response.body.items) :
          LET ts == response.body.items[i].timestamp
          IN /\ ts % 100 = 0
             /\ ((ts \div 10000) % 100) \in 1..12
             /\ ((ts \div 100) % 100) \in 1..DaysInMonth(ts \div 1000000, (ts \div 10000) % 100)

\* C4: for a successful response with N valid items, N = 0 included, the
\* fetch returns exactly N records, the i-th carrying the i-th item's date
\* and view count.
C4_OneRecordPerItem ==
    ValidItemsResponse
        => /\ ~views_df.isNone
           /\ Len(views_df.rows) = Len(response.body.items)
           /\ \A i \in 1..Len(response.body.items) :
                 /\ StrfYmd(views_df.rows[i].date) * 100 = response.body.items[i].timestamp
                 /\ views_df.rows[i].pageviews = response.body.items[i].views

\* the dates of the rows are strictly increasing and no count is negative
SeriesInvariant(rows) ==
    /\ \A i \in 1..Len(rows) : rows[i].pageviews >= 0
    /\ \A i, j \in 1..Len(rows) : i < j => DateLT(rows[i].date, rows[j].date)

\* C5 as stated: every series the fetch returns has unique, strictly
\* increasing dates and non-negative pageviews.
C5_SeriesInvariantAlways ==
    (Fetched /\ ~views_df.isNone) => SeriesInvariant(views_df.rows)

\* the API's items are in strictly increasing timestamp order with
\* non-negative views
ItemsChronological(items) ==
    /\ \A i \in 1..Len(items) : items[i].views >= 0
    /\ \A i, j \in 1..Len(items) : i < j => items[i].timestamp < items[j].timestamp

\* C5 amended: the fetch keeps the items in the API's order, so the series it
\* returns has strictly increasing dates and non-negative pageviews whenever
\* the API's items have.
C5_SeriesInvariantOfChronologicalItems ==
    (Fetched /\ ~views_df.isNone /\ ItemsChronological(response.body.items))
        => /\ SeriesInvariant(views_df.rows)
           /\ Len(views_df.rows) = Len(response.body.items)

C5_Witness ==
    /\ Fetched /\ ~views_df.isNone
    /\ Len(views_df.rows) >= 2
    /\ ItemsChronological(response.body.items)
    /\ SeriesInvariant(views_df.rows)

RECURSIVE SumFrom(_, _)
\* the pageviews of rows i..Len(rows) added up from the last row backwards
SumFrom(rows, i) == IF i > Len(rows) THEN 0 ELSE rows[i].pageviews + SumFrom(rows, i + 1)

\* C6: the metrics shown for a series of N >= 1 records are the sum of all
\* pageviews, that sum over N, and the first row (in series order) whose
\* pageviews no other row exceeds, with its date and its count.
C6_Metrics ==
    metrics.shown
        => LET rows == views_df.rows
               N == Len(rows)
           IN /\ N >= 1
              /\ metrics.total_views = SumFrom(rows, 1)
              /\ metrics.avg_views.num = metrics.total_views
              /\ metrics.avg_views.den = N
              /\ \E i \in 1..N :
                    /\ metrics.max_views_row = rows[i]
                    /\ \A j \in 1..N : rows[j].pageviews <= rows[i].pageviews
                    /\ \A j \in 1..(i - 1) :
                          /\ rows[j].pageviews < rows[i].pageviews
                          /\ rows[j] # rows[i]

C6_Witness ==
    /\ metrics.shown
    /\ Len(views_df.rows) = 3
    /\ views_df.rows[1].pageviews < views_df.rows[2].pageviews
    /\ views_df.rows[2].pageviews = views_df.rows[3].pageviews
    /\ views_df.rows[2].date # views_df.rows[3].date
    /\ metrics.max_views_row = views_df.rows[2]

\* C7: metrics, success message and chart appear only for a non-empty
\* series; when the fetch returned None or an empty series the cycle ends
\* with the could-not-retrieve message instead, and the aggregation never
\* runs on an empty input (it never raises).
C7_NoAggregationOnEmpty ==
    /\ pc # "crashed"
    /\ ~metrics.raised
    /\ (metrics.shown \/ chart \/ (\E i \in 1..Len(messages) : messages[i] = "success"))
          => (~views_df.isNone /\ Len(views_df.rows) > 0 /\ metrics.shown /\ chart)
    /\ (Fetched /\ (views_df.isNone \/ Len(views_df.rows) = 0))
          => /\ messages[Len(messages)] = "err_no_data"
             /\ ~metrics.shown /\ ~chart

C7_Witness ==
    /\ Fetched /\ views_df.isNone
    /\ response.kind = "http" /\ response.status = 200 /\ response.body.hasItems
    /\ messages[Len(messages)] = "err_no_data"

\* the GET failed: a transport error or a non-success status other than 404
RequestFailure ==
    /\ Fetched
    /\ \/ response.kind = "transport_error"
       \/ response.kind = "http" /\ response.status # 404 /\ response.status \notin 200..299

\* the GET succeeded and reading or normalising the body failed
ProcessingFailure ==
    /\ Fetched /\ response.kind = "http" /\ response.status \in 200..299
    /\ \/ response.body.kind \in {"notjson", "scalar"}
       \/ response.body.hasItems /\ views_df.isNone

\* C8: a transport error or non-404 non-success status yields the
\* request-failed message, any error while parsing or normalising the
\* response yields the processing-error message, each returns None with that
\* one message as the fetch's only output, and the cycle goes on to its end.
C8_FailuresHandledAtOrigin ==
    /\ pc # "crashed"
    /\ RequestFailure => (views_df = None /\ messages = <<"err_request", "err_no_data">>)
    /\ ProcessingFailure => (views_df = None /\ messages = <<"err_processing", "err_no_data">>)

\* C9: the generator returns 225 records, exactly one for each pair of the
\* 15 evenly spaced latitudes in [40.70, 40.80] and the 15 evenly spaced
\* longitudes in [-74.02, -73.93], every sampled field within its range.
\* Coordinates are in 1/1400 degree, sampled values in 1/RandRes of a unit
\* (confidence in 1/RandRes of a tenth).
C9_Grid ==
    road.shown
        => /\ Len(road.df) = 225
           /\ \A i, j \in 0..14 :
                 Cardinality({n \in 1..Len(road.df) :
                                 /\ road.df[n].lat = 56980 + 10 * i
                                 /\ road.df[n].lon = (-103628) + 9 * j}) = 1
           /\ \A n \in 1..Len(road.df) :
                 /\ road.df[n].lat >= 56980 /\ road.df[n].lat <= 57120
                 /\ road.df[n].lon >= -103628 /\ road.df[n].lon <= -103502
                 /\ road.df[n].currentSpeed >= 10 * RandRes
                 /\ road.df[n].currentSpeed <= 60 * RandRes
                 /\ road.df[n].freeFlowSpeed >= 40 * RandRes
                 /\ road.df[n].freeFlowSpeed <= 70 * RandRes
                 /\ road.df[n].jamFactor >= 0
                 /\ road.df[n].jamFactor <= 10 * RandRes
                 /\ road.df[n].confidence >= 5 * RandRes
                 /\ road.df[n].confidence <= 10 * RandRes

C9_Witness ==
    /\ road.shown /\ pc = "done"
    /\ Len(road.df) = 225
    /\ road.df[1].lat = 56980 /\ road.df[1].lon = -103628
    /\ road.df[225].lat = 57120 /\ road.df[225].lon = -103502
    /\ \E n \in 1..Len(road.df) : road.df[n].currentSpeed = 10 * RandRes

\* C10: a cycle runs exactly the one pipeline the mode selector names and
\* issues at most one GET: none in the road view, none in the Wikipedia view
\* unless the trigger was pressed with valid input, and exactly one (never a
\* second) once the outcome of the fetch is in.
C10_OnePipelineOneGet ==
    /\ pc = "start" => (pipelines = <<>> /\ getCount = 0)
    /\ pc # "start" =>
          /\ pipelines = <<IF option = "Simulated NYC Road Traffic" THEN "road" ELSE "wikipedia">>
          /\ road.shown <=> option = "Simulated NYC Road Traffic"
    /\ getCount <= 1 /\ fetchCalls = getCount
    /\ option = "Simulated NYC Road Traffic" => (getCount = 0 /\ response = NoResponse)
    /\ getCount = 1 <=>
          /\ WikiSelected /\ pressed
          /\ Len(article) > 0 /\ ~DateLT(end_date, start_date)
    /\ Fetched => getCount = 1
    /\ pc = "wiki_get" => (getCount = 1 /\ response = NoResponse)

C10_Witness ==
    /\ Fetched /\ pc = "done"
    /\ getCount = 1
    /\ views_df.isNone
    /\ response.kind = "transport_error"

====
